---- MODULE Spec2Model ----
(***************************************************************************)
(* Model of SAME70_glitch_with_Supply_Power_CW.py: the interactive command *)
(* loop (lines 269-315) that drives the HMC804x supply, the ChipWhisperer  *)
(* glitch module and the J-Link debug probe.                               *)
(*                                                                         *)
(* The script is single threaded.  Every statement of the command loop     *)
(* that talks to a device is one action; pc is the statement the script is *)
(* at.  A device call either returns or raises.  The command loop has no   *)
(* try/except, so an exception raised outside check_swd ends the script    *)
(* (pc = "aborted").  The status prints of lines 299 and 305 and the       *)
(* sleeps are logging and timing and are not modelled.                     *)
(*                                                                         *)
(* Init is the state after lines 226-269 ran without an exception: the     *)
(* supply channel was switched off (line 230), the scope holds its default *)
(* setup (line 236) and unlocked_flag is 0.  A start-up whose HMC804x      *)
(* construction failed leaves hmc8042 unbound; every supply call then      *)
(* raises, which is the raising branch of the supply calls below.          *)
(***************************************************************************)
EXTENDS Integers, Sequences, FiniteSets, TLC

\* ---------------------------------------------------------------- bounds
\* Number of menu commands entered in one behaviour.
MaxCommands == 3
\* Offsets typed at the prompts are drawn from -MaxNegOffset .. MaxOffset.
MaxOffset == 2
MaxNegOffset == 1

\* ------------------------------------------------------ program constants
\* range(140, 200, 10), line 288.
RepeatStart == 140
RepeatEnd == 200
RepeatStep == 10
\* range(int(first_offset), int(second_offset), 1), line 287.
OffsetStep == 1
\* jlink.memory_read32(0, 10), line 307.
ReadAddress == 0
ReadWords == 10

VARIABLES
    pc,             \* statement the script is at
    cmd,            \* what_do_you_want of the command being run (line 272)
    ncmd,           \* commands entered so far
    unlocked_flag,  \* the module-level unlocked_flag (line 269)
    swd_flag,       \* check_swd's local unlocked_flag (lines 257, 261)
    swd_calls,      \* J-Link calls of the check_swd invocation in progress
    first_offset,   \* text typed at line 285
    second_offset,  \* text typed at line 286
    offset,         \* loop variable of line 287
    repeat,         \* loop variable of line 288
    off_it,         \* next value of the range iterator of line 287
    rep_it,         \* next value of the range iterator of line 288
    supply,         \* output state of channel 1 of the HMC804x
    ext_offset,     \* scope.glitch.ext_offset
    glitch_repeat,  \* scope.glitch.repeat
    glitch_static,  \* the scope settings setup_glitch writes
    calls,          \* device calls of the current command, in order
    attempts,       \* (ext_offset, repeat, probe result) of each line-304 return
    reported,       \* the (offset, repeat) pairs printed by lines 290-291
    hexlist,        \* memory dumps printed by line 309
    fault,          \* the call whose exception ended the script, or "none"
    entry           \* unlocked_flag, supply and last command at command entry

vars == <<pc, cmd, ncmd, unlocked_flag, swd_flag, swd_calls, first_offset,
          second_offset, offset, repeat, off_it, rep_it, supply, ext_offset, glitch_repeat,
          glitch_static, calls, attempts, reported, hexlist, fault, entry>>

\* ------------------------------------------------------------- helpers
\* A line typed at an input() prompt: a decimal integer or other text.
InputLines ==
    [num : {TRUE}, val : (0 - MaxNegOffset)..MaxOffset]
        \cup {[num |-> FALSE, val |-> 0]}

\* int(text) raises ValueError unless the text is an integer literal.
IntParses(text) == text.num
int(text) == text.val

\* Mutant: the stop bound is taken as inclusive.
RangeHasNext_Inclusive(it, stop) == it <= stop
\* range iterator: has a next value while it is below stop (step > 0).
RangeHasNext(it, stop) == it < stop

\* Mutant: the iterator advances by two steps.
RangeNext_Skip(it, step) == it + step + step
\* range iterator: the value after `it`.
RangeNext(it, step) == it + step

\* len(range(start, stop, step)) for step > 0.
RangeLen(start, stop, step) ==
    IF stop > start THEN ((stop - start) + step - 1) \div step ELSE 0

\* The attributes setup_glitch assigns, in order (lines 218-223).
StaticFields ==
    <<"clk_src", "output", "triggers", "trigger_src", "glitch_hp", "glitch_lp">>
StaticValues ==
    <<"clkgen", "enable_only", "tio3", "ext_single", "True", "True">>
StaticDefault == [n \in 1..Len(StaticFields) |-> "default"]

Call(op, a, b, ok) == [op |-> op, a |-> a, b |-> b, ok |-> ok]

\* Mutant: the exception is swallowed and the script goes on.
Propagate_Swallow(site, cont) == cont
\* An exception nobody catches leaves the while loop of line 270.
Propagate(site, cont) == "aborted"

\* Mutant: check_swd has no except clause.
Caught_Uncaught(handler) == "aborted"
\* lines 254-263: an exception raised inside the try goes to the handler.
Caught(handler) == handler

\* Mutant: the flag is not tested inside the repeat loop.
InnerBreak_Never(flag) == FALSE
\* line 289: if(unlocked_flag == 1)
InnerBreak(flag) == flag = 1
\* line 306: if(unlocked_flag == 1)
OuterBreak(flag) == flag = 1
\* Mutant: line 310 is missing, the offset loop goes on after the read.
AfterRead_NoBreak == "outer"
\* line 310: break leaves the offset loop; the command is over.
AfterRead == "done"

\* Mutant: the offset loop never falls through to the prompt.
LoopExhausted_Spin == "outer"
\* line 287: the range of offsets has run out; the command is over.
LoopExhausted == "done"

\* Mutant: line 284 is missing, setup_glitch is not called.
AfterFlagReset_NoSetup == "input"
\* line 284 follows line 283: setup_glitch() is the first call of command 2.
AfterFlagReset == "setup_glitch"

\* Mutant: the supply is switched off only after the arm.
NextStep_ArmBeforeOff(step) ==
    CASE step = "set_ext_offset" -> "set_repeat"
      [] step = "set_repeat" -> "arm"
      [] step = "arm" -> "turn_off"
      [] step = "turn_off" -> "turn_on"
      [] step = "turn_on" -> "swd_connect"
\* Mutant: the supply is switched on before the arm.
NextStep_OnBeforeArm(step) ==
    CASE step = "set_ext_offset" -> "set_repeat"
      [] step = "set_repeat" -> "turn_off"
      [] step = "turn_off" -> "turn_on"
      [] step = "turn_on" -> "arm"
      [] step = "arm" -> "swd_connect"
\* lines 297-304: the statement that follows each statement of an attempt.
NextStep(step) ==
    CASE step = "set_ext_offset" -> "set_repeat"
      [] step = "set_repeat" -> "turn_off"
      [] step = "turn_off" -> "arm"
      [] step = "arm" -> "turn_on"
      [] step = "turn_on" -> "swd_connect"

\* Mutant: the output write has no effect on the channel.
OutputAfter_Stuck(old, target) == old
\* lines 185-186, 191-192: "OUTPut ON" / "OUTPut OFF" sets the output.
OutputAfter(old, target) == target

\* Mutant: command 1 assigns the result of check_swd to the global flag too.
AssignsResult_Always(c) == TRUE
\* line 304 assigns the value check_swd returns, line 279 drops it.
AssignsResult(c) == c = "2"

\* check_swd, line 257: unlocked_flag = 1 once jlink.connect has returned.
UnlockedFlag == 1
\* check_swd, line 261: unlocked_flag = 0 in the except clause.
LockedFlag == 0
\* Mutant: the except clause leaves the flag as the try block set it.
FlagOnException_Keep(flag) == flag
\* lines 260-261: `except Exception` catches what connect or core_id raised
\* and overwrites the local flag.
FlagOnException(flag) == LockedFlag

\* Mutant: line 283 is missing, the flag of the previous campaign stays.
FlagAtCampaignStart_Keep(flag) == flag
\* line 283: unlocked_flag = 0
FlagAtCampaignStart(flag) == LockedFlag

Init ==
    /\ pc = "prompt"
    /\ cmd = "none"
    /\ ncmd = 0
    /\ unlocked_flag = 0
    /\ swd_flag = 0
    /\ swd_calls = <<>>
    /\ first_offset = [num |-> TRUE, val |-> 0]
    /\ second_offset = [num |-> TRUE, val |-> 0]
    /\ offset = 0
    /\ repeat = 0
    /\ off_it = 0
    /\ rep_it = 0
    /\ supply = "OFF"
    /\ ext_offset = 0
    /\ glitch_repeat = 1
    /\ glitch_static = StaticDefault
    /\ calls = <<>>
    /\ attempts = <<>>
    /\ reported = <<>>
    /\ hexlist = <<>>
    /\ fault = "none"
    /\ entry = [flag |-> 0, supply |-> "OFF", last |-> "none"]

\* line 272: a command is typed at the prompt.
NewCommand(c) ==
    /\ pc = "prompt"
    /\ ncmd < MaxCommands
    /\ ncmd' = ncmd + 1
    /\ cmd' = c
    /\ entry' = [flag |-> unlocked_flag, supply |-> supply, last |-> cmd]
    /\ UNCHANGED <<attempts, reported, hexlist>>

\* hmc8042.Turn_ON_CHANNEL_1 / Turn_OFF_CHANNEL_1 (lines 183-193) at `site`:
\* the SCPI write returns, or raises with the output in either state.
SupplyWrite(target, site, cont) ==
    \E ok \in BOOLEAN :
        /\ calls' = Append(calls, Call(target, 1, 0, ok))
        /\ IF ok
           THEN /\ supply' = OutputAfter(supply, target)
                /\ pc' = cont
                /\ fault' = fault
           ELSE /\ supply' \in {supply, target}
                /\ pc' = Propagate(site, cont)
                /\ fault' = site

\* ------------------------------------------------------------ command 1
\* lines 277-278
Cmd1TurnOn ==
    /\ NewCommand("1")
    /\ \E ok \in BOOLEAN :
        /\ calls' = <<Call("ON", 1, 0, ok)>>
        /\ IF ok
           THEN /\ supply' = OutputAfter(supply, "ON")
                /\ pc' = "swd_connect"
                /\ fault' = fault
           ELSE /\ supply' \in {supply, "ON"}
                /\ pc' = Propagate("cmd1_ON", "swd_connect")
                /\ fault' = "cmd1_ON"
    /\ UNCHANGED <<unlocked_flag, swd_flag, swd_calls, first_offset, second_offset, offset,
                   repeat, off_it, rep_it, ext_offset, glitch_repeat,
                   glitch_static>>

\* ------------------------------------------------------------ check_swd
\* line 256: jlink.connect; line 257 when it returns, line 261 when it raises.
CheckSwdConnect ==
    /\ pc = "swd_connect"
    /\ \E ok \in BOOLEAN :
        /\ swd_calls' = Append(swd_calls, Call("connect", 0, 0, ok))
        /\ swd_flag' = IF ok THEN UnlockedFlag ELSE FlagOnException(swd_flag)
        /\ pc' = IF ok THEN "swd_core_id" ELSE Caught("swd_return")
    /\ UNCHANGED <<cmd, ncmd, unlocked_flag, first_offset, second_offset, offset,
                   repeat, off_it, rep_it, supply, ext_offset, glitch_repeat,
                   glitch_static, calls, attempts, reported, hexlist, fault>>
    /\ UNCHANGED entry

\* line 258: print(hex(jlink.core_id())); line 261 when it raises.
CheckSwdCoreId ==
    /\ pc = "swd_core_id"
    /\ \E ok \in BOOLEAN :
        /\ swd_calls' = Append(swd_calls, Call("core_id", 0, 0, ok))
        /\ swd_flag' = IF ok THEN swd_flag ELSE FlagOnException(swd_flag)
        /\ pc' = IF ok THEN "swd_return" ELSE Caught("swd_return")
    /\ UNCHANGED <<cmd, ncmd, unlocked_flag, first_offset, second_offset, offset,
                   repeat, off_it, rep_it, supply, ext_offset, glitch_repeat,
                   glitch_static, calls, attempts, reported, hexlist, fault>>
    /\ UNCHANGED entry

\* line 265 return; line 279 drops the value, line 304 assigns it.
CheckSwdReturn ==
    /\ pc = "swd_return"
    /\ calls' = Append(calls, Call("check_swd", swd_flag, 0, TRUE))
    /\ swd_calls' = <<>>
    /\ IF AssignsResult(cmd)
       THEN /\ unlocked_flag' = swd_flag
            /\ attempts' = Append(attempts,
                   [offset |-> ext_offset, repeat |-> glitch_repeat,
                    result |-> swd_flag])
       ELSE UNCHANGED <<unlocked_flag, attempts>>
    /\ pc' = IF cmd = "2" THEN "inner" ELSE "done"
    /\ UNCHANGED <<cmd, ncmd, swd_flag, first_offset, second_offset, offset,
                   repeat, off_it, rep_it, supply, ext_offset, glitch_repeat,
                   glitch_static, reported, hexlist, fault>>
    /\ UNCHANGED entry

\* ------------------------------------------------------------ command 2
\* lines 281-283
Cmd2Start ==
    /\ NewCommand("2")
    /\ unlocked_flag' = FlagAtCampaignStart(unlocked_flag)
    /\ calls' = <<>>
    /\ pc' = AfterFlagReset
    /\ UNCHANGED <<swd_flag, swd_calls, first_offset, second_offset, offset, repeat, off_it,
                   rep_it, supply, ext_offset, glitch_repeat, glitch_static,
                   fault>>

\* line 284: setup_glitch() assigns six scope attributes in order; an
\* assignment that raises leaves the earlier ones written.
SetupGlitch ==
    /\ pc = "setup_glitch"
    /\ \E written \in 0..Len(StaticFields) :
        LET ok == written = Len(StaticFields) IN
        /\ glitch_static' = [n \in 1..Len(StaticFields) |->
               IF n <= written THEN StaticValues[n] ELSE glitch_static[n]]
        /\ calls' = Append(calls, Call("setup_glitch", written, 0, ok))
        /\ pc' = IF ok THEN "input" ELSE Propagate("setup_glitch", "input")
        /\ fault' = IF ok THEN fault ELSE "setup_glitch"
    /\ UNCHANGED <<cmd, ncmd, unlocked_flag, swd_flag, swd_calls, first_offset,
                   second_offset, offset, repeat, off_it, rep_it, supply,
                   ext_offset, glitch_repeat, attempts, reported, hexlist>>
    /\ UNCHANGED entry

\* lines 285-287: both prompts, then int() of both and the range iterator.
ReadBounds ==
    /\ pc = "input"
    /\ \E a \in InputLines, b \in InputLines :
        /\ first_offset' = a
        /\ second_offset' = b
        /\ IF IntParses(a) /\ IntParses(b)
           THEN /\ off_it' = int(a)
                /\ pc' = "outer"
                /\ fault' = fault
           ELSE /\ off_it' = off_it
                /\ pc' = Propagate("ValueError", "outer")
                /\ fault' = "ValueError"
    /\ UNCHANGED <<cmd, ncmd, unlocked_flag, swd_flag, swd_calls, offset, repeat,
                   rep_it,
                   supply, ext_offset, glitch_repeat, glitch_static, calls,
                   attempts, reported, hexlist>>
    /\ UNCHANGED entry

\* line 287: for offset in range(int(first_offset), int(second_offset), 1)
OuterLoop ==
    /\ pc = "outer"
    /\ IF RangeHasNext(off_it, int(second_offset))
       THEN /\ offset' = off_it
            /\ off_it' = RangeNext(off_it, OffsetStep)
            /\ rep_it' = RepeatStart
            /\ pc' = "inner"
       ELSE /\ UNCHANGED <<offset, off_it, rep_it>>
            /\ pc' = LoopExhausted
    /\ UNCHANGED <<cmd, ncmd, unlocked_flag, swd_flag, swd_calls, first_offset,
                   second_offset, repeat, supply, ext_offset, glitch_repeat,
                   glitch_static, calls, attempts, reported, hexlist, fault>>
    /\ UNCHANGED entry

\* lines 288-293: for repeat in range(140, 200, 10), and the test of the flag.
InnerLoop ==
    /\ pc = "inner"
    /\ IF RangeHasNext(rep_it, RepeatEnd)
       THEN /\ repeat' = rep_it
            /\ rep_it' = RangeNext(rep_it, RepeatStep)
            /\ IF InnerBreak(unlocked_flag)
               THEN /\ reported' = Append(reported,
                           [offset |-> offset, repeat |-> rep_it])
                    /\ pc' = "after_inner"
               ELSE /\ reported' = reported
                    /\ pc' = "set_ext_offset"
       ELSE /\ UNCHANGED <<repeat, rep_it, reported>>
            /\ pc' = "after_inner"
    /\ UNCHANGED <<cmd, ncmd, unlocked_flag, swd_flag, swd_calls, first_offset,
                   second_offset, offset, off_it, supply, ext_offset,
                   glitch_repeat, glitch_static, calls, attempts, hexlist, fault>>
    /\ UNCHANGED entry

\* line 297: scope.glitch.ext_offset = offset
SetExtOffset ==
    /\ pc = "set_ext_offset"
    /\ \E ok \in BOOLEAN :
        /\ calls' = Append(calls, Call("ext_offset", offset, 0, ok))
        /\ ext_offset' = IF ok THEN offset ELSE ext_offset
        /\ pc' = IF ok THEN NextStep(pc) ELSE Propagate("ext_offset", NextStep(pc))
        /\ fault' = IF ok THEN fault ELSE "ext_offset"
    /\ UNCHANGED <<cmd, ncmd, unlocked_flag, swd_flag, swd_calls, first_offset,
                   second_offset, offset, repeat, off_it, rep_it, supply,
                   glitch_repeat, glitch_static, attempts, reported, hexlist>>
    /\ UNCHANGED entry

\* line 298: scope.glitch.repeat = repeat
SetRepeat ==
    /\ pc = "set_repeat"
    /\ \E ok \in BOOLEAN :
        /\ calls' = Append(calls, Call("repeat", repeat, 0, ok))
        /\ glitch_repeat' = IF ok THEN repeat ELSE glitch_repeat
        /\ pc' = IF ok THEN NextStep(pc) ELSE Propagate("repeat", NextStep(pc))
        /\ fault' = IF ok THEN fault ELSE "repeat"
    /\ UNCHANGED <<cmd, ncmd, unlocked_flag, swd_flag, swd_calls, first_offset,
                   second_offset, offset, repeat, off_it, rep_it, supply,
                   ext_offset, glitch_static, attempts, reported, hexlist>>
    /\ UNCHANGED entry

\* line 300: hmc8042.Turn_OFF_CHANNEL_1()
TurnOff ==
    /\ pc = "turn_off"
    /\ SupplyWrite("OFF", "OFF", NextStep(pc))
    /\ UNCHANGED <<cmd, ncmd, unlocked_flag, swd_flag, swd_calls, first_offset,
                   second_offset, offset, repeat, off_it, rep_it, ext_offset,
                   glitch_repeat, glitch_static, attempts, reported, hexlist>>
    /\ UNCHANGED entry

\* line 301: scope.arm()
Arm ==
    /\ pc = "arm"
    /\ \E ok \in BOOLEAN :
        /\ calls' = Append(calls, Call("arm", ext_offset, glitch_repeat, ok))
        /\ pc' = IF ok THEN NextStep(pc) ELSE Propagate("arm", NextStep(pc))
        /\ fault' = IF ok THEN fault ELSE "arm"
    /\ UNCHANGED <<cmd, ncmd, unlocked_flag, swd_flag, swd_calls, first_offset,
                   second_offset, offset, repeat, off_it, rep_it, supply,
                   ext_offset, glitch_repeat, glitch_static, attempts, reported,
                   hexlist>>
    /\ UNCHANGED entry

\* line 303: hmc8042.Turn_ON_CHANNEL_1(), then line 304 enters check_swd.
TurnOn ==
    /\ pc = "turn_on"
    /\ SupplyWrite("ON", "ON", NextStep(pc))
    /\ UNCHANGED <<cmd, ncmd, unlocked_flag, swd_flag, swd_calls, first_offset,
                   second_offset, offset, repeat, off_it, rep_it, ext_offset,
                   glitch_repeat, glitch_static, attempts, reported, hexlist>>
    /\ UNCHANGED entry

\* line 306: if(unlocked_flag == 1), after the repeat loop of one offset.
AfterInner ==
    /\ pc = "after_inner"
    /\ pc' = IF OuterBreak(unlocked_flag) THEN "memory_read" ELSE "outer"
    /\ UNCHANGED <<cmd, ncmd, unlocked_flag, swd_flag, swd_calls, first_offset,
                   second_offset, offset, repeat, off_it, rep_it, supply,
                   ext_offset, glitch_repeat, glitch_static, calls, attempts,
                   reported, hexlist, fault>>
    /\ UNCHANGED entry

\* lines 307-310: jlink.memory_read32(0,10), print, break.
MemoryRead ==
    /\ pc = "memory_read"
    /\ \E ok \in BOOLEAN :
        /\ calls' = Append(calls, Call("memory_read32", ReadAddress, ReadWords, ok))
        /\ hexlist' = IF ok THEN Append(hexlist, ReadWords) ELSE hexlist
        /\ pc' = IF ok THEN AfterRead ELSE Propagate("memory_read32", AfterRead)
        /\ fault' = IF ok THEN fault ELSE "memory_read32"
    /\ UNCHANGED <<cmd, ncmd, unlocked_flag, swd_flag, swd_calls, first_offset,
                   second_offset, offset, repeat, off_it, rep_it, supply,
                   ext_offset, glitch_repeat, glitch_static, attempts, reported>>
    /\ UNCHANGED entry

\* ------------------------------------------------------------ command p
\* lines 312-313
CmdPTurnOn ==
    /\ NewCommand("p")
    /\ \E ok \in BOOLEAN :
        /\ calls' = <<Call("ON", 1, 0, ok)>>
        /\ IF ok
           THEN /\ supply' = OutputAfter(supply, "ON")
                /\ pc' = "p_off"
                /\ fault' = fault
           ELSE /\ supply' \in {supply, "ON"}
                /\ pc' = Propagate("p_ON", "p_off")
                /\ fault' = "p_ON"
    /\ UNCHANGED <<unlocked_flag, swd_flag, swd_calls, first_offset, second_offset, offset,
                   repeat, off_it, rep_it, ext_offset, glitch_repeat,
                   glitch_static>>

\* line 315
CmdPTurnOff ==
    /\ pc = "p_off"
    /\ SupplyWrite("OFF", "p_OFF", "done")
    /\ UNCHANGED <<cmd, ncmd, unlocked_flag, swd_flag, swd_calls, first_offset,
                   second_offset, offset, repeat, off_it, rep_it, ext_offset,
                   glitch_repeat, glitch_static, attempts, reported, hexlist>>
    /\ UNCHANGED entry

\* Any other text at the prompt of line 272: no branch is taken.
CmdOther ==
    /\ NewCommand("other")
    /\ calls' = <<>>
    /\ pc' = "done"
    /\ UNCHANGED <<unlocked_flag, swd_flag, swd_calls, first_offset,
                   second_offset, offset, repeat, off_it, rep_it, supply,
                   ext_offset, glitch_repeat, glitch_static, fault>>

\* line 270: while True goes back to the prompt of line 272.  What the
\* previous command printed and called is history, and the names the next
\* command assigns before it reads them (the bounds, the loop variables and
\* iterators, check_swd's local flag) are cleared.
Prompt ==
    /\ pc = "done"
    /\ pc' = "prompt"
    /\ calls' = <<>>
    /\ attempts' = <<>>
    /\ reported' = <<>>
    /\ hexlist' = <<>>
    /\ swd_flag' = 0
    /\ first_offset' = [num |-> TRUE, val |-> 0]
    /\ second_offset' = [num |-> TRUE, val |-> 0]
    /\ offset' = 0
    /\ repeat' = 0
    /\ off_it' = 0
    /\ rep_it' = 0
    /\ UNCHANGED <<cmd, ncmd, unlocked_flag, swd_calls, supply, ext_offset,
                   glitch_repeat, glitch_static, fault, entry>>

Next ==
    \/ Cmd1TurnOn
    \/ CheckSwdConnect
    \/ CheckSwdCoreId
    \/ CheckSwdReturn
    \/ Cmd2Start
    \/ SetupGlitch
    \/ ReadBounds
    \/ OuterLoop
    \/ InnerLoop
    \/ SetExtOffset
    \/ SetRepeat
    \/ TurnOff
    \/ Arm
    \/ TurnOn
    \/ AfterInner
    \/ MemoryRead
    \/ CmdPTurnOn
    \/ CmdPTurnOff
    \/ CmdOther
    \/ Prompt

Spec == Init /\ [][Next]_vars

\* The statements that run without waiting for the operator: every one but
\* the input() calls of lines 272, 285 and 286.  A call that is made
\* returns or raises, and the interpreter goes on to the next statement.
Step ==
    \/ CheckSwdConnect
    \/ CheckSwdCoreId
    \/ CheckSwdReturn
    \/ SetupGlitch
    \/ OuterLoop
    \/ InnerLoop
    \/ SetExtOffset
    \/ SetRepeat
    \/ TurnOff
    \/ Arm
    \/ TurnOn
    \/ AfterInner
    \/ MemoryRead
    \/ CmdPTurnOff
    \/ Prompt

\* The command loop when no statement hangs: a statement that can run does.
FairSpec == Init /\ [][Next]_vars /\ WF_vars(Step)

\* The statements of command 2 (lines 283-310).
CampaignPcs ==
    {"setup_glitch", "input", "outer", "inner", "set_ext_offset", "set_repeat",
     "turn_off", "arm", "turn_on", "swd_connect", "swd_core_id", "swd_return",
     "after_inner", "memory_read"}

\* The only outside stop the script has: the operator's Ctrl-C.  The script
\* installs no signal handler and tests no stop flag, so KeyboardInterrupt
\* is raised at whatever statement is running; `except Exception` (line
\* 260) does not catch it and it leaves the command loop.
Interrupt ==
    /\ cmd = "2"
    /\ pc \in CampaignPcs
    /\ pc' = "aborted"
    /\ fault' = "KeyboardInterrupt"
    /\ UNCHANGED <<cmd, ncmd, unlocked_flag, swd_flag, swd_calls, first_offset,
                   second_offset, offset, repeat, off_it, rep_it, supply,
                   ext_offset, glitch_repeat, glitch_static, calls, attempts,
                   reported, hexlist, entry>>

NextInterrupt == Next \/ Interrupt

\* The script with an operator who may press Ctrl-C during a campaign.
SpecInterrupt == Init /\ [][NextInterrupt]_vars

\* ================================================================ claims
\* Number of calls of `op` the current command has issued.
Count(op) == Cardinality({n \in DOMAIN calls : calls[n].op = op})

\* Attempt k is the first whose probe returned UNLOCKED.
UnlockedAt(k) ==
    /\ k \in DOMAIN attempts
    /\ attempts[k].result = UnlockedFlag
    /\ \A m \in 1..(k - 1) : attempts[m].result = LockedFlag

\* The script is inside command 2 past the reading of its bounds.
BoundsRead ==
    /\ cmd = "2"
    /\ pc \in {"outer", "inner", "set_ext_offset", "set_repeat", "turn_off",
               "arm", "turn_on", "swd_connect", "swd_core_id", "swd_return",
               "after_inner", "memory_read", "done"}

\* Points of the space typed at the prompts, by the formula of the spec.
RepeatsPerOffset == RangeLen(RepeatStart, RepeatEnd, RepeatStep)
SpaceSize ==
    (IF int(second_offset) > int(first_offset)
     THEN int(second_offset) - int(first_offset) ELSE 0) * RepeatsPerOffset
\* The n-th point of the nested enumeration (offset outer, repeat inner).
PointAt(n) ==
    [offset |-> int(first_offset) + ((n - 1) \div RepeatsPerOffset) * OffsetStep,
     repeat |-> RepeatStart + ((n - 1) % RepeatsPerOffset) * RepeatStep]

\* C1: once the probe of attempt k is the first to return UNLOCKED, the
\* campaign has made exactly k attempts and makes no more: k configurations,
\* k supply disables, k arms, k supply enables and k probes have been issued,
\* whatever the position of attempt k within its offset, and the run ends on
\* the success branch of line 306 with unlocked_flag = 1.
C1_StopsAtFirstUnlock ==
    \A k \in DOMAIN attempts :
        UnlockedAt(k) =>
            /\ Len(attempts) = k
            /\ Count("ext_offset") = k
            /\ Count("repeat") = k
            /\ Count("OFF") = k
            /\ Count("arm") = k
            /\ Count("ON") = k
            /\ Count("check_swd") = k
            /\ pc \in {"inner", "after_inner", "memory_read", "done", "aborted"}
            /\ pc \in {"done", "aborted"} =>
                   /\ unlocked_flag = UnlockedFlag
                   /\ Count("memory_read32") = 1
                   /\ fault \in {"none", "memory_read32"}

\* C1 witness: the sixth attempt (repeat 190, the last of its offset) unlocks
\* with further offsets left, and the command is over after six attempts.
C1_Witness ==
    /\ pc = "done"
    /\ cmd = "2"
    /\ UnlockedAt(RepeatsPerOffset)
    /\ attempts[RepeatsPerOffset].repeat = RepeatEnd - RepeatStep
    /\ int(second_offset) - int(first_offset) >= 2

\* C1 second case: the unlocking attempt is not the last repeat of its offset.
C1_WitnessMidOffset ==
    /\ pc = "done"
    /\ cmd = "2"
    /\ UnlockedAt(2)
    /\ Len(attempts) = 2

\* C2: on success the pair printed by lines 290-291 is the pair that was
\* configured for the attempt whose probe returned UNLOCKED.
C2_ReportedIsUnlockingPoint ==
    (pc = "done" /\ cmd = "2" /\ unlocked_flag = UnlockedFlag) =>
        reported = <<[offset |-> attempts[Len(attempts)].offset,
                      repeat |-> attempts[Len(attempts)].repeat]>>

\* C3: a campaign in which every probe returned LOCKED ends exhausted after
\* as many attempts as the space has points, (second - first) * 6 for a
\* non-empty offset range, prints no UNLOCKED point and reads no memory.
C3_ExhaustedAfterWholeSpace ==
    (/\ pc = "done"
     /\ cmd = "2"
     /\ \A k \in DOMAIN attempts : attempts[k].result = LockedFlag) =>
        /\ Len(attempts) = SpaceSize
        /\ Count("check_swd") = SpaceSize
        /\ unlocked_flag = LockedFlag
        /\ reported = <<>>
        /\ hexlist = <<>>
        /\ Count("memory_read32") = 0

\* C3 witness: a space of three offsets, all eighteen probes LOCKED.
C3_Witness ==
    /\ pc = "done"
    /\ cmd = "2"
    /\ int(second_offset) - int(first_offset) = 3
    /\ Len(attempts) = 3 * RepeatsPerOffset
    /\ \A k \in DOMAIN attempts : attempts[k].result = LockedFlag

\* C4: the points attempted are, in order, a prefix of the nested
\* enumeration (offset outer by 1, repeat inner from 140 by 10 below 200):
\* the n-th attempt is the n-th point, so none is skipped, reordered or
\* repeated, and the whole enumeration has max(0, second - first) * 6 points.
C4_AttemptsArePrefixOfEnumeration ==
    /\ \A n \in DOMAIN attempts :
           /\ attempts[n].offset = PointAt(n).offset
           /\ attempts[n].repeat = PointAt(n).repeat
           /\ attempts[n].offset < int(second_offset)
           /\ attempts[n].repeat < RepeatEnd
    /\ \A m, n \in DOMAIN attempts :
           (attempts[m].offset = attempts[n].offset
                /\ attempts[m].repeat = attempts[n].repeat) => m = n
    /\ BoundsRead => Len(attempts) <= SpaceSize
    /\ (BoundsRead /\ pc = "done" /\ unlocked_flag = LockedFlag) =>
           Len(attempts) = SpaceSize

\* C4 witness: the attempts have gone through one whole offset and are in
\* the repeat values of the next.
C4_Witness ==
    /\ cmd = "2"
    /\ Len(attempts) = RepeatsPerOffset + 3
    /\ attempts[RepeatsPerOffset + 3] =
           [offset |-> int(first_offset) + 1,
            repeat |-> RepeatStart + 2 * RepeatStep,
            result |-> LockedFlag]

\* Some call of `op` in the running check_swd returned (ok) or raised (~ok).
SwdCall(op, ok) ==
    \E n \in DOMAIN swd_calls : swd_calls[n].op = op /\ swd_calls[n].ok = ok

\* C5: check_swd returns UNLOCKED exactly when jlink.connect and
\* jlink.core_id both returned; when either raised it returns LOCKED, the
\* exception stays inside check_swd and the script goes on.
C5_ProbeFoldsFailuresIntoLocked ==
    /\ pc = "swd_return" =>
           (swd_flag = UnlockedFlag <=>
                SwdCall("connect", TRUE) /\ SwdCall("core_id", TRUE))
    /\ (SwdCall("connect", FALSE) \/ SwdCall("core_id", FALSE)) =>
           /\ pc = "swd_return"
           /\ swd_flag = LockedFlag
           /\ fault = "none"
    /\ (cmd = "2" /\ pc = "inner" /\ attempts # <<>>
            /\ attempts[Len(attempts)].result = LockedFlag) =>
           /\ fault = "none"
           /\ unlocked_flag = LockedFlag

\* C5 witness: connect returned, core_id raised, check_swd is about to
\* return LOCKED to the campaign.
C5_Witness ==
    /\ pc = "swd_return"
    /\ cmd = "2"
    /\ SwdCall("connect", TRUE)
    /\ SwdCall("core_id", FALSE)
    /\ swd_flag = LockedFlag


\* Some call of `op` of the current command returned (ok) or raised (~ok).
Issued(op, ok) ==
    \E n \in DOMAIN calls : calls[n].op = op /\ calls[n].ok = ok

\* C6: a memory read that fails after an UNLOCKED probe is not fatal: the
\* script is not ended by it and the command completes as a success.
C6_ReadFailureIsNotFatal ==
    Issued("memory_read32", FALSE) =>
        /\ pc # "aborted"
        /\ fault = "none"
        /\ unlocked_flag = UnlockedFlag

\* The calls of one attempt whose failure the campaign does not handle.
AttemptSteps == {"ext_offset", "repeat", "OFF", "arm", "ON"}

\* C7: when the configuration of offset or repeat, the supply disable, the
\* arm or the supply enable of an attempt raises, the campaign ends there:
\* the failed call is the last call issued (no retry, no later step, no later
\* point), every earlier call had returned, no memory read was issued and
\* the exception left the command loop.
C7_AttemptStepFailureAborts ==
    (cmd = "2" /\ \E op \in AttemptSteps : Issued(op, FALSE)) =>
        /\ pc = "aborted"
        /\ fault \in AttemptSteps
        /\ calls[Len(calls)].op = fault
        /\ ~calls[Len(calls)].ok
        /\ \A n \in 1..(Len(calls) - 1) : calls[n].ok
        /\ Count("memory_read32") = 0
        /\ Count("check_swd") = Len(attempts)
        /\ Count("ext_offset") = Len(attempts) + 1

\* C7 witness: four attempts were made and the repeat write of the fifth
\* raised.
C7_Witness ==
    /\ cmd = "2"
    /\ pc = "aborted"
    /\ fault = "repeat"
    /\ Len(attempts) = 4
    /\ Issued("repeat", FALSE)

\* The offset range typed at the prompts is empty.
EmptySpace == int(second_offset) <= int(first_offset)

\* C8 as stated: a campaign over an empty space ends exhausted with zero
\* attempts and has made no call to any device.
C8_EmptySpaceMakesNoCall ==
    (BoundsRead /\ EmptySpace) =>
        /\ attempts = <<>>
        /\ calls = <<>>

\* C8 amended: a campaign over an empty space ends exhausted with zero
\* attempts; the only device access of the run is the write of the static
\* glitch settings by setup_glitch at its start: no supply call, no offset
\* or repeat write, no arm, no probe and no memory read.
C8_EmptySpaceOnlySetsUpGlitch ==
    (BoundsRead /\ EmptySpace) =>
        /\ pc \in {"outer", "done"}
        /\ attempts = <<>>
        /\ reported = <<>>
        /\ hexlist = <<>>
        /\ unlocked_flag = LockedFlag
        /\ fault = "none"
        /\ calls = <<Call("setup_glitch", Len(StaticFields), 0, TRUE)>>
        /\ glitch_static = StaticValues

\* C8 witness: the command is over for bounds with second < first.
C8_Witness ==
    /\ pc = "done"
    /\ cmd = "2"
    /\ int(second_offset) < int(first_offset)
    /\ attempts = <<>>
    /\ Count("setup_glitch") = 1

\* C9: memory is read at most once per campaign, at address 0, right after
\* a probe that returned UNLOCKED; a campaign that ends after an UNLOCKED
\* probe has read it exactly once, and one without an UNLOCKED probe never.
C9_MemoryReadOnceAfterUnlock ==
    /\ Count("memory_read32") <= 1
    /\ \A n \in DOMAIN calls :
           calls[n].op = "memory_read32" =>
               /\ n > 1
               /\ calls[n - 1] = Call("check_swd", UnlockedFlag, 0, TRUE)
               /\ calls[n].a = ReadAddress
               /\ \E k \in DOMAIN attempts : UnlockedAt(k)
    /\ (cmd = "2" /\ pc \in {"done", "aborted"}
            /\ \E k \in DOMAIN attempts : attempts[k].result = UnlockedFlag) =>
           Count("memory_read32") = 1
    /\ (\A k \in DOMAIN attempts : attempts[k].result = LockedFlag) =>
           Count("memory_read32") = 0

\* C9 witness: the second-offset attempt unlocked, the read was issued once
\* and the command is over.
C9_Witness ==
    /\ pc = "done"
    /\ cmd = "2"
    /\ Len(attempts) > RepeatsPerOffset
    /\ UnlockedAt(Len(attempts))
    /\ Count("memory_read32") = 1
    /\ calls[Len(calls)].op = "memory_read32"

\* The bounds typed at the prompts are malformed: not a number, or negative.
MalformedBounds ==
    \/ ~IntParses(first_offset)
    \/ ~IntParses(second_offset)
    \/ int(first_offset) < 0
    \/ int(second_offset) < 0

\* C10: malformed bounds are rejected before the run starts: for them no
\* offset or repeat is written to the glitch module and no supply, arm or
\* probe step is executed.
C10_MalformedBoundsRejected ==
    (cmd = "2" /\ pc \notin {"prompt", "setup_glitch", "input"}
        /\ MalformedBounds) =>
        /\ ~Issued("ext_offset", TRUE)
        /\ ~Issued("repeat", TRUE)
        /\ Count("OFF") = 0
        /\ Count("arm") = 0
        /\ Count("ON") = 0
        /\ Count("check_swd") = 0
        /\ swd_calls = <<>>


\* C11: a campaign can be stopped from outside, the stop takes effect only
\* between attempts (never between the supply disable and the probe of the
\* same attempt), and the stopped run returns with the attempts made so far
\* instead of discarding them.
C11_StopOnlyBetweenAttempts ==
    fault = "KeyboardInterrupt" =>
        /\ Count("OFF") = Count("check_swd")
        /\ swd_calls = <<>>
        /\ attempts # <<>> => pc = "done"


\* The calls of one complete attempt at point (o, r) with probe result f.
AttemptCalls(o, r, f) ==
    <<Call("ext_offset", o, 0, TRUE), Call("repeat", r, 0, TRUE),
      Call("OFF", 1, 0, TRUE), Call("arm", o, r, TRUE), Call("ON", 1, 0, TRUE),
      Call("check_swd", f, 0, TRUE)>>

\* C12: every campaign, however the command before it ended (also after a
\* campaign that ended UNLOCKED), starts with the flag cleared and at the
\* first point of its bounds, and its n-th attempt is the n-th point of
\* those bounds alone; over a non-empty space the first point is attempted
\* in full (configured, powered off, armed, powered on, probed) instead of
\* the run stopping at once.
C12_RerunStartsFromFirstPoint ==
    /\ (cmd = "2" /\ pc \in {"setup_glitch", "input", "outer"}
            /\ attempts = <<>>) => unlocked_flag = LockedFlag
    /\ (cmd = "2" /\ pc # "prompt" /\ unlocked_flag = UnlockedFlag) =>
           \E k \in DOMAIN attempts : UnlockedAt(k)
    /\ \A n \in DOMAIN attempts :
           /\ attempts[n].offset = PointAt(n).offset
           /\ attempts[n].repeat = PointAt(n).repeat
    /\ (cmd = "2" /\ pc = "done" /\ ~EmptySpace) =>
           /\ Len(attempts) >= 1
           /\ Len(calls) >= 7
           /\ SubSeq(calls, 2, 7) =
                  AttemptCalls(int(first_offset), RepeatStart,
                               attempts[1].result)
           /\ reported # <<>> => unlocked_flag = UnlockedFlag

\* C12 witness: a campaign entered with the flag still set by the campaign
\* before it has gone through its whole non-empty space.
C12_Witness ==
    /\ cmd = "2"
    /\ pc = "done"
    /\ entry.flag = UnlockedFlag
    /\ ~EmptySpace
    /\ Len(attempts) = SpaceSize
    /\ unlocked_flag = LockedFlag


\* The order of the calls of one attempt as the claim states it.
StatedOrder == <<"OFF", "ext_offset", "repeat", "arm", "ON", "check_swd">>
\* The order of the calls of one attempt in lines 297-304.
CodeOrder == <<"ext_offset", "repeat", "OFF", "arm", "ON", "check_swd">>

\* The calls of a campaign are setup_glitch, then attempts whose calls
\* follow `order`, then at most a final memory read after a whole attempt.
CallsFollow(order) ==
    cmd = "2" =>
        \A n \in DOMAIN calls :
            IF n = 1
            THEN calls[n].op = "setup_glitch"
            ELSE \/ calls[n].op = order[((n - 2) % Len(order)) + 1]
                 \/ /\ calls[n].op = "memory_read32"
                    /\ n = Len(calls)
                    /\ (n - 2) % Len(order) = 0

AttemptPcs ==
    {"set_ext_offset", "set_repeat", "turn_off", "arm", "turn_on",
     "swd_connect", "swd_core_id", "swd_return"}

\* C14: the static injector settings (clock source, output mode, trigger
\* source and the other attributes of setup_glitch) are written once, as the
\* first call of the campaign and before its first attempt, and they keep
\* those values through every step of every attempt.
C14_StaticSettingsOnceAtStart ==
    cmd = "2" =>
        /\ Count("setup_glitch") <= 1
        /\ \A n \in DOMAIN calls : calls[n].op = "setup_glitch" => n = 1
        /\ (pc \in AttemptPcs \/ Count("ext_offset") >= 1) =>
               /\ calls # <<>>
               /\ Head(calls) = Call("setup_glitch", Len(StaticFields), 0, TRUE)
               /\ glitch_static = StaticValues

\* C14 witness: the first campaign of the session is in its third attempt.
C14_Witness ==
    /\ cmd = "2"
    /\ ncmd = 1
    /\ pc = "arm"
    /\ Len(attempts) = 2
    /\ glitch_static = StaticValues

\* C15: command 1 switches the supply on and probes once; it never
\* disables the supply, never writes or arms the injector, never reads
\* memory, and leaves the global unlocked_flag as it found it, so a campaign
\* entered after it attempts the points of its own bounds from the first.
C15_SinglePointCheckIsProbeOnly ==
    /\ cmd = "1" =>
           /\ \A n \in DOMAIN calls :
                  calls[n].op = IF n = 1 THEN "ON" ELSE "check_swd"
           /\ Len(calls) <= 2
           /\ unlocked_flag = entry.flag
           /\ attempts = <<>>
           /\ reported = <<>>
           /\ hexlist = <<>>
           /\ pc = "done" => Count("check_swd") = 1
    /\ (cmd = "2" /\ entry.last = "1") =>
           /\ \A n \in DOMAIN attempts :
                  /\ attempts[n].offset = PointAt(n).offset
                  /\ attempts[n].repeat = PointAt(n).repeat
           /\ (pc = "done" /\ unlocked_flag = LockedFlag) =>
                  Len(attempts) = SpaceSize

\* C15 witness: a campaign ended UNLOCKED, command 1 probed LOCKED, and the
\* campaign entered next found the flag still set and went through its
\* whole space.
C15_Witness ==
    /\ cmd = "2"
    /\ entry.last = "1"
    /\ entry.flag = UnlockedFlag
    /\ pc = "done"
    /\ ~EmptySpace
    /\ Len(attempts) = SpaceSize

\* C15 witness of the probe itself: command 1 is over and its probe
\* returned UNLOCKED while the global flag is still 0.
C15_WitnessProbe ==
    /\ cmd = "1"
    /\ pc = "done"
    /\ calls = <<Call("ON", 1, 0, TRUE), Call("check_swd", UnlockedFlag, 0, TRUE)>>
    /\ unlocked_flag = LockedFlag

\* C16: from the probe that returned UNLOCKED to the memory read the target
\* stays powered and the injector keeps the unlocking point: the supply is
\* on, offset and repeat are those of the unlocking attempt, no second
\* probe is running, and the last call is that probe or the memory read
\* that directly follows it.
C16_TargetUndisturbedUntilRead ==
    \A k \in DOMAIN attempts :
        UnlockedAt(k) =>
            /\ supply = "ON"
            /\ ext_offset = attempts[k].offset
            /\ glitch_repeat = attempts[k].repeat
            /\ swd_calls = <<>>
            /\ pc \notin AttemptPcs
            /\ LET n == Len(calls) IN
                   \/ calls[n] = Call("check_swd", UnlockedFlag, 0, TRUE)
                   \/ /\ calls[n].op = "memory_read32"
                      /\ calls[n - 1] = Call("check_swd", UnlockedFlag, 0, TRUE)

\* C16 witness: the third attempt unlocked and the memory read is next.
C16_Witness ==
    /\ cmd = "2"
    /\ pc = "memory_read"
    /\ UnlockedAt(3)
    /\ supply = "ON"

\* ON calls of the current command at positions lo..hi.
OnBetween(lo, hi) ==
    Cardinality({j \in lo..hi : j \in DOMAIN calls /\ calls[j].op = "ON"})

\* C17: in every state of every sequence of commands, a probe runs only
\* with the supply last switched on and the injector is armed only with the
\* supply last switched off; between two arms, and after the last arm of a
\* whole attempt, there is exactly one supply enable.
C17_ProbeWhileOnArmWhileOff ==
    /\ pc \in {"swd_connect", "swd_core_id", "swd_return"} => supply = "ON"
    /\ pc \in {"arm", "turn_on"} => supply = "OFF"
    /\ \A n \in DOMAIN calls :
           /\ calls[n].op = "check_swd" =>
                  n > 1 /\ calls[n - 1] = Call("ON", 1, 0, TRUE)
           /\ calls[n].op = "arm" =>
                  /\ n > 1 /\ calls[n - 1] = Call("OFF", 1, 0, TRUE)
                  /\ OnBetween(n + 1, Len(calls)) >= 1
                         => calls[n + 1].op = "ON"
                  /\ \A m \in (n + 1)..Len(calls) :
                         (calls[m].op = "arm"
                            /\ \A j \in (n + 1)..(m - 1) : calls[j].op # "arm")
                             => OnBetween(n + 1, m - 1) = 1

\* C17 witness: the second attempt has armed the injector with the supply
\* off and is about to switch the supply on.
C17_Witness ==
    /\ cmd = "2"
    /\ pc = "turn_on"
    /\ Len(attempts) = 1
    /\ Count("arm") = 2
    /\ supply = "OFF"

\* C18: a campaign that made at least one attempt and returned (success or
\* exhausted) leaves the supply on, and so does command 1; command p
\* leaves it off; a campaign over an empty space leaves it as it was.
C18_SupplyLeftByCommand ==
    pc = "done" =>
        /\ cmd = "1" => supply = "ON"
        /\ cmd = "p" => supply = "OFF"
        /\ (cmd = "2" /\ attempts # <<>>) => supply = "ON"
        /\ (cmd = "2" /\ attempts = <<>>) => supply = entry.supply
        /\ cmd = "other" => supply = entry.supply

\* C18 witness: a campaign over an empty space, entered with the supply on,
\* is over with the supply still on.
C18_Witness ==
    /\ pc = "done"
    /\ cmd = "2"
    /\ EmptySpace
    /\ entry.supply = "ON"
    /\ supply = "ON"

\* C18 second case: a campaign entered with the supply off made attempts
\* and is over.
C18_WitnessCampaign ==
    /\ pc = "done"
    /\ cmd = "2"
    /\ entry.supply = "OFF"
    /\ Len(attempts) >= RepeatsPerOffset
    /\ supply = "ON"


\* C19: once the bounds are read a campaign never makes more attempts than
\* its space has points, and, when no statement hangs, it ends: either a
\* call raised and the script is over, or the command is done with
\* unlocked_flag set or the whole space attempted, and from there the loop
\* is back at the prompt.
C19_CampaignTerminates ==
    /\ [](BoundsRead => Len(attempts) <= SpaceSize)
    /\ (cmd = "2" /\ pc = "outer")
           ~> \/ pc = "aborted"
              \/ /\ pc = "done"
                 /\ \/ unlocked_flag = UnlockedFlag
                    \/ Len(attempts) = SpaceSize
    /\ (cmd = "2" /\ pc = "done") ~> (pc = "prompt")

\* C19 witness: a campaign unlocked the target, its memory read returned,
\* and the loop is back at the prompt.
C19_Witness ==
    /\ cmd = "2"
    /\ pc = "prompt"
    /\ unlocked_flag = UnlockedFlag
    /\ fault = "none"

====
